---- MODULE Spec2Model ----
(***************************************************************************)
(* long-bottom (app.py): a websocket server that sends the last NUM_LINES  *)
(* lines of a log file to a client, optionally follows the file, and       *)
(* probes the client with ping/pong.  One session (one run of the          *)
(* send_log_data coroutine) against its environment: the client, the       *)
(* filesystem and the writer of the log (Spec, and FairSpec with the       *)
(* event loop's fairness); two sessions on one event loop (TwoSpec).       *)
(*                                                                         *)
(* Strings are sequences of one-character strings.  A request is the       *)
(* request target before "?" (a string) plus the query as a sequence of    *)
(* <<key, value>> pairs.                                                   *)
(***************************************************************************)
EXTENDS Integers, Sequences, FiniteSets, TLC

\* ------------------------------------------------------------------ bounds
MaxPathLen == 5      \* longest request target of the path sweep
MaxQueryLen == 1     \* most key=value pairs in a query string
MaxOver == 1         \* initial file length goes up to NUM_LINES + MaxOver - 1
MaxAppend == 1       \* most lines appended to the log while a session runs
MaxInbox == 1        \* most client messages queued and not yet received
MaxPings == 1        \* the ping counter saturates here

\* --------------------------------------------------------- program constants
NUM_LINES == 1000
HEARTBEAT_INTERVAL == 15
HEARTBEAT_TIMEOUT == 5
POLL_INTERVAL == 1

\* ------------------------------------------------------------------ strings
Alphabet == {"/", ".", "a", "["}

Strings(n) == UNION {[1..k -> Alphabet] : k \in 0..n}

startswith(s, prefix) ==
    /\ Len(prefix) <= Len(s)
    /\ SubSeq(s, 1, Len(prefix)) = prefix

Chars(s) == {s[i] : i \in 1..Len(s)}

\* index of the first "/" of s at or after position i, Len(s) + 1 if none
RECURSIVE find_slash(_, _)
find_slash(s, i) ==
    IF i > Len(s) THEN Len(s) + 1
    ELSE IF s[i] = "/" THEN i
    ELSE find_slash(s, i + 1)

\* str.split('/')
RECURSIVE split(_)
split(s) ==
    LET k == find_slash(s, 1)
    IN IF k > Len(s) THEN <<s>>
       ELSE <<SubSeq(s, 1, k - 1)>> \o split(SubSeq(s, k + 1, Len(s)))

\* '/'.join(comps)
RECURSIVE join_slash(_)
join_slash(comps) ==
    IF comps = <<>> THEN <<>>
    ELSE IF Len(comps) = 1 THEN comps[1]
    ELSE comps[1] \o <<"/">> \o join_slash(Tail(comps))

DotDot == <<".", ".">>

\* the loop of posixpath.normpath over the components
RECURSIVE collapse(_, _, _)
collapse(comps, new_comps, initial_slashes) ==
    IF comps = <<>> THEN new_comps
    ELSE LET comp == Head(comps)
             rest == Tail(comps)
         IN IF comp = <<>> \/ comp = <<".">>
            THEN collapse(rest, new_comps, initial_slashes)
            ELSE IF \/ comp # DotDot
                    \/ (initial_slashes = 0 /\ new_comps = <<>>)
                    \/ (new_comps # <<>> /\ new_comps[Len(new_comps)] = DotDot)
            THEN collapse(rest, Append(new_comps, comp), initial_slashes)
            ELSE IF new_comps # <<>>
            THEN collapse(rest, SubSeq(new_comps, 1, Len(new_comps) - 1),
                          initial_slashes)
            ELSE collapse(rest, new_comps, initial_slashes)

\* posixpath.normpath
normpath(path) ==
    IF path = <<>> THEN <<".">>
    ELSE LET initial_slashes ==
                 IF ~startswith(path, <<"/">>) THEN 0
                 ELSE IF startswith(path, <<"/", "/">>)
                         /\ ~startswith(path, <<"/", "/", "/">>) THEN 2
                 ELSE 1
             comps == collapse(split(path), <<>>, initial_slashes)
             joined == join_slash(comps)
             out == [i \in 1..initial_slashes |-> "/"] \o joined
         IN IF out = <<>> THEN <<".">> ELSE out

\* posixpath.join(a, b)
path_join(a, b) ==
    IF startswith(b, <<"/">>) THEN b
    ELSE IF a = <<>> \/ a[Len(a)] = "/" THEN a \o b
    ELSE a \o <<"/">> \o b

\* os.getcwd(): the directory the server was started in
Cwd == <<"/", "a">>

\* os.path.abspath
abspath(path) ==
    normpath(IF startswith(path, <<"/">>) THEN path ELSE path_join(Cwd, path))

\* ------------------------------------------------------------------ urllib
\* urllib.parse.urlparse on a request: a target that starts with "//" has a
\* network location up to the next "/", and a "[" without "]" in it raises
\* ValueError("Invalid IPv6 URL").  The alphabet has no "]", ":", ";", "?"
\* or "#", so a "[" is never matched and no scheme, params or fragment is
\* ever split off the target.
urlparse(url) ==
    IF startswith(url.target, <<"/", "/">>)
    THEN LET rest == SubSeq(url.target, 3, Len(url.target))
             k == find_slash(rest, 1)
             netloc == SubSeq(rest, 1, k - 1)
         IN IF "[" \in Chars(netloc)
            THEN [raised |-> TRUE, path |-> <<>>, query |-> <<>>]
            ELSE [raised |-> FALSE, path |-> SubSeq(rest, k, Len(rest)),
                  query |-> url.query]
    ELSE [raised |-> FALSE, path |-> url.target, query |-> url.query]

\* urllib.parse.parse_qs: a dict from each key to the list of its values, in
\* order; pairs with a blank value are dropped (keep_blank_values=False)
parse_qs(query) ==
    LET kept == SelectSeq(query, LAMBDA kv : kv[2] # "")
        keys == {kept[i][1] : i \in 1..Len(kept)}
        vals(k) == LET own == SelectSeq(kept, LAMBDA kv : kv[1] = k)
                   IN [i \in 1..Len(own) |-> own[i][2]]
    IN [k \in keys |-> vals(k)]

\* ------------------------------------------------------------- exceptions
Exc(type, msg) == [type |-> type, msg |-> msg]
NoExc == Exc("none", "")

Ok(v) == [raised |-> FALSE, exc |-> NoExc, value |-> v]
Raise(e, v) == [raised |-> TRUE, exc |-> e, value |-> v]

\* the classes caught by "except ValueError" (UnicodeDecodeError is a
\* subclass of ValueError); every other class goes to "except Exception"
ValueErrorTypes == {"ValueError", "UnicodeDecodeError"}

\* ---------------------------------------------------------------- inputs
\* the files of the filesystem: one inside the directory /a/a, and its
\* sibling /a/aa
InsideFile == <<"/", "a", "/", "a", "/", "a">>
SiblingFile == <<"/", "a", "/", "a", "a">>
AllFiles == {InsideFile, SiblingFile}

\* allowed_directories at module load
DefaultRoots == {<<".", "/", "long-bottom">>}

\* the --prefix arguments of a run
InsideRoot == <<"/", "a", "/", "a">>
PrefixArgs == {{InsideRoot}, {<<"/", "a", "/", "a", "/">>}}

QueryPairs == {"tail", "x"} \X {"1", "0", ""}
Queries(n) == UNION {[1..k -> QueryPairs] : k \in 0..n}

\* the query string "tail=1"
TailQuery == << <<"tail", "1">> >>

\* request targets of the sessions whose whole life is explored
InsideTarget == <<"/", "a", "/", "a">>
Targets == {InsideTarget, <<"/", "a", "a">>}

FileLens == {0, 2} \cup {NUM_LINES - 1 + k : k \in 0..MaxOver}

RemoteAddress == "client"

\* ----------------------------------------------------------------- state
VARIABLES
    request,              \* path: the request target and query
    allowed_directories,  \* the global list of allowed prefixes
    files,                \* the regular files that exist now
    fileLen,              \* number of lines in the requested log file
    undecodable,          \* the unread part of the log holds invalid bytes
    appended,             \* lines appended since the session began
    pc,                   \* position of the session coroutine
    parse_result,         \* send_log_data: parse_result
    file_path,            \* send_log_data: file_path
    tail,                 \* send_log_data: tail (its truth value)
    fh,                   \* the file object f: "none", "open", "closed"
    cursor,               \* lines of the log already read through f
    content,              \* send_file_content: content, while being sent
    exc,                  \* the exception being handled
    elapsed,              \* tail_file: time.time() - last_heartbeat, saturating
    waited,               \* time spent in wait_for(websocket.recv(), 5)
    conn,                 \* the connection: "open" or "closed"
    clientGone,           \* the client closed the connection
    closeCalled,          \* handle_error called websocket.close()
    inbox,                \* client messages not yet received
    stale,                \* how many of them were sent before the ping awaited
    sentContent,          \* log content the client received, in order
    sentError,            \* error payloads the client received
    pings,                \* pings the client received, saturating
    probe,                \* why the heartbeat probe failed, "none" if none did
    tailReads,            \* the non-empty results of file.read() in tail_file
    peer,                 \* the locals of the other session, when there are two
    log                   \* the records written by logging.info

vars == <<request, allowed_directories, files, fileLen, undecodable, appended,
          pc, parse_result, file_path, tail, fh, cursor, content, exc,
          elapsed, waited, conn, clientGone, closeCalled, inbox, sentContent,
          sentError, pings, probe, tailReads, log, peer, stale>>

\* what no step of a session writes: its request, the global list, and the
\* locals of another session
inputVars == <<request, allowed_directories, peer>>
fileVars == <<files, fileLen, undecodable, appended>>
localVars == <<parse_result, file_path, tail>>
clockVars == <<elapsed, waited>>
connVars == <<conn, clientGone, closeCalled>>
sentVars == <<sentContent, sentError, pings>>

\* ------------------------------------------------------------ validation
validate_and_parse_url(path) ==
    LET r == urlparse(path)
    IN IF r.raised
       THEN Raise(Exc("ValueError", "Fail to parse URL"), r)
       ELSE Ok(r)

\* variant: the prefix test with its arguments the other way round
is_file_path_allowed_reversed(fp) ==
    \E prefix \in allowed_directories : startswith(prefix, fp)

\* variant: a prefix counts only up to a component boundary
is_file_path_allowed_componentwise(fp) ==
    \E prefix \in allowed_directories :
        /\ startswith(fp, prefix)
        /\ \/ Len(fp) = Len(prefix)
           \/ prefix[Len(prefix)] = "/"
           \/ fp[Len(prefix) + 1] = "/"

is_file_path_allowed(fp) ==
    \E prefix \in allowed_directories : startswith(fp, prefix)

\* os.path.isfile against the filesystem as it is now
isfile(fp) == fp \in files

\* variant: existence is examined before the prefix
get_absolute_file_path_exists_first(pr) ==
    LET fp == abspath(<<".">> \o pr.path)
    IN IF ~isfile(fp)
       THEN Raise(Exc("ValueError", "Not Found"), fp)
       ELSE IF ~is_file_path_allowed(fp)
       THEN Raise(Exc("ValueError", "Forbidden"), fp)
       ELSE Ok(fp)

get_absolute_file_path(pr) ==
    LET fp == abspath(<<".">> \o pr.path)
    IN IF ~is_file_path_allowed(fp)
       THEN Raise(Exc("ValueError", "Forbidden"), fp)
       ELSE IF ~isfile(fp)
       THEN Raise(Exc("ValueError", "Not Found"), fp)
       ELSE Ok(fp)

is_file_accessible(fp) == isfile(fp) /\ is_file_path_allowed(fp)

\* variant: any value of tail turns tailing on
tail_flag_truthy(query) ==
    IF DOMAIN query = {} THEN Ok(FALSE)
    ELSE IF "tail" \notin DOMAIN query
    THEN Raise(Exc("KeyError", "'tail'"), FALSE)
    ELSE Ok(query["tail"] # <<>>)

\* tail = query and query['tail'] and query['tail'][0] == '1'
\* (an empty dict is false; a missing key raises KeyError; the lists that
\* parse_qs builds are never empty)
tail_flag(query) ==
    IF DOMAIN query = {} THEN Ok(FALSE)
    ELSE IF "tail" \notin DOMAIN query
    THEN Raise(Exc("KeyError", "'tail'"), FALSE)
    ELSE Ok(query["tail"][1] = "1")

\* --------------------------------------------------------------- snapshot
\* the i-th line of the log is the number i; a space is 0
SPACE == 0

\* the lines a read through f returns when the cursor is at c
unread_lines(c) == [i \in 1..(fileLen - c) |-> c + i]

\* variant: a full deque refuses the new element instead of dropping its
\* oldest
deque_append_keep_oldest(d, x, maxlen) ==
    IF maxlen = 0 THEN d
    ELSE IF Len(d) = maxlen THEN d
    ELSE Append(d, x)

\* deque.append on a deque of the given maxlen
deque_append(d, x, maxlen) ==
    IF maxlen = 0 THEN d
    ELSE IF Len(d) = maxlen THEN Append(Tail(d), x)
    ELSE Append(d, x)

\* deque(iterable, maxlen): the elements it[lo..hi] appended in order
RECURSIVE deque_extend(_, _, _, _, _)
deque_extend(d, it, lo, hi, maxlen) ==
    IF lo > hi THEN d
    ELSE IF lo = hi THEN deque_append(d, it[lo], maxlen)
    ELSE LET mid == (lo + hi) \div 2
             left == deque_extend(d, it, lo, mid, maxlen)
         IN IF Len(left) >= 0
            THEN deque_extend(left, it, mid + 1, hi, maxlen)
            ELSE left

deque(it, maxlen) == deque_extend(<<>>, it, 1, Len(it), maxlen)

\* ' '.join(lines)
join_space(lines) ==
    [i \in 1..(IF lines = <<>> THEN 0 ELSE 2 * Len(lines) - 1) |->
        IF i % 2 = 1 THEN lines[(i + 1) \div 2] ELSE SPACE]

\* Ansi2HTMLConverter.convert(text, full=False): an opaque pure function of
\* the text
convert(text) == [html |-> text]

\* ansi_to_html_converter(content, full=False): the converter object is
\* called; Ansi2HTMLConverter defines no __call__, so this raises TypeError
converter_call(text) ==
    Raise(Exc("TypeError", "'Ansi2HTMLConverter' object is not callable"),
          convert(<<>>))

get_last_lines(file) ==
    LET lines == deque(file, NUM_LINES)
        joined == join_space(lines)
    IN convert(joined)

\* variant: the bare message, without the markup
ErrorPayload_plain(e) == <<e.msg>>

\* '<font color="red"><strong>{}</strong></font>'.format(exception)
ErrorPayload(e) == <<"<font color=\"red\"><strong>", e.msg, "</strong></font>">>

\* variant: the record is written without the exception
Disconnected_no_exc(e) ==
    [event |-> "Client disconnected", address |-> RemoteAddress,
     path |-> request, exception |-> NoExc]

\* the record log_client_disconnection writes
Disconnected(e) ==
    [event |-> "Client disconnected", address |-> RemoteAddress,
     path |-> request, exception |-> e]

Connected ==
    [event |-> "Client connected", address |-> RemoteAddress,
     path |-> request, exception |-> NoExc]

\* ------------------------------------------------------------------ Init
\* no second session
NoSession == [pc |-> "none"]

\* the filesystem and the log before a session has taken a step, and the
\* locals of a session that has just been accepted
Fresh ==
    /\ files = AllFiles
    /\ undecodable = FALSE
    /\ appended = 0
    /\ pc = "connected"
    /\ parse_result = [raised |-> FALSE, path |-> <<>>, query |-> <<>>]
    /\ file_path = <<>>
    /\ tail = FALSE
    /\ fh = "none"
    /\ cursor = 0
    /\ content = <<>>
    /\ exc = NoExc
    /\ elapsed = 0
    /\ waited = 0
    /\ conn = "open"
    /\ clientGone = FALSE
    /\ closeCalled = FALSE
    /\ inbox = <<>>
    /\ stale = 0
    /\ sentContent = <<>>
    /\ sentError = <<>>
    /\ pings = 0
    /\ probe = "none"
    /\ tailReads = <<>>
    /\ log = <<>>

\* The session starts on one of three families of requests: every target
\* up to MaxPathLen with no query, under either --prefix, on a two-line
\* file; the target of the file inside the root with every query up to
\* MaxQueryLen on a two-line file; the targets of both files with no query
\* on files of every length in FileLens.
Init ==
    /\ \/ /\ request \in [target : Strings(MaxPathLen), query : {<<>>}]
          /\ allowed_directories \in {DefaultRoots \cup p : p \in PrefixArgs}
          /\ fileLen = 2
       \/ /\ request \in [target : {InsideTarget}, query : Queries(MaxQueryLen)]
          /\ allowed_directories = DefaultRoots \cup {InsideRoot}
          /\ fileLen = 2
       \/ /\ request \in [target : Targets, query : {<<>>}]
          /\ allowed_directories = DefaultRoots \cup {InsideRoot}
          /\ fileLen \in FileLens
    /\ peer = NoSession
    /\ Fresh

\* ------------------------------------------------------- the session steps
\* which except clause of send_log_data catches e
except_clause(e) ==
    IF e.type \in ValueErrorTypes THEN "handle_error" ELSE "generic_error"

\* variant: after an exception the request is processed anew
Fail_retry(e) ==
    /\ exc' = e
    /\ pc' = "connected"

\* an exception leaves the try block of send_log_data (the locals of
\* tail_file and wait_for are gone with their frames)
Fail(e) ==
    /\ exc' = e
    /\ pc' = except_clause(e)

Min(a, b) == IF a < b THEN a ELSE b

\* variant: f is left open
WithExit_leak == UNCHANGED fh

\* leaving the "with open(file_path) as f" block closes f
WithExit == fh' = "closed"

\* variant: any answer counts as a pong
is_pong_any(m) == TRUE

\* send_heartbeat: the test of the received message
is_pong(m) == m = "pong"

\* variant: an accepted path is added to the global list of prefixes
Validate_extend_roots ==
    /\ pc = "connected"
    /\ log' = Append(log, Connected)
    /\ LET pr == validate_and_parse_url(request)
       IN IF pr.raised
          THEN /\ Fail(pr.exc)
               /\ UNCHANGED <<parse_result, file_path, allowed_directories>>
          ELSE LET fp == get_absolute_file_path(pr.value)
               IN /\ parse_result' = pr.value
                  /\ IF fp.raised
                     THEN /\ Fail(fp.exc)
                          /\ UNCHANGED <<file_path, allowed_directories>>
                     ELSE /\ file_path' = fp.value
                          /\ allowed_directories' =
                                 allowed_directories \cup {fp.value}
                          /\ pc' = "check_access"
                          /\ UNCHANGED exc
    /\ UNCHANGED <<request, peer, stale, fileVars, tail, fh, cursor, content,
                   clockVars, connVars, inbox, sentVars, probe, tailReads>>

\* send_log_data up to get_absolute_file_path
Validate ==
    /\ pc = "connected"
    /\ log' = Append(log, Connected)
    /\ LET pr == validate_and_parse_url(request)
       IN IF pr.raised
          THEN /\ Fail(pr.exc)
               /\ UNCHANGED <<parse_result, file_path>>
          ELSE LET fp == get_absolute_file_path(pr.value)
               IN /\ parse_result' = pr.value
                  /\ IF fp.raised
                     THEN /\ Fail(fp.exc)
                          /\ UNCHANGED file_path
                     ELSE /\ file_path' = fp.value
                          /\ pc' = "check_access"
                          /\ UNCHANGED exc
    /\ UNCHANGED <<inputVars, stale, fileVars, tail, fh, cursor, content,
                   clockVars, connVars, inbox, sentVars, probe, tailReads>>

\* send_log_data: the is_file_accessible check and the tail flag
CheckAccess ==
    /\ pc = "check_access"
    /\ IF ~is_file_accessible(file_path)
       THEN /\ Fail(Exc("ValueError", "Forbidden or not found"))
            /\ UNCHANGED tail
       ELSE LET t == tail_flag(parse_qs(parse_result.query))
            IN IF t.raised
               THEN /\ Fail(t.exc)
                    /\ UNCHANGED tail
               ELSE /\ tail' = t.value
                    /\ pc' = "send_file_content"
                    /\ UNCHANGED exc
    /\ UNCHANGED <<inputVars, stale, fileVars, parse_result, file_path, fh,
                   cursor, content, clockVars, connVars, inbox, sentVars,
                   probe, tailReads, log>>

\* send_file_content: open(file_path) and get_last_lines(f).  The open
\* fails when the file is gone; the read fails on an I/O error or on bytes
\* that do not decode; leaving the with block closes f.
OpenSnapshot ==
    /\ pc = "send_file_content"
    /\ \E fault \in {"none", "io"} :
        IF ~isfile(file_path)
        THEN /\ Fail(Exc("FileNotFoundError", "No such file or directory"))
             /\ UNCHANGED <<fh, cursor, content>>
        ELSE IF fault = "io"
        THEN /\ Fail(Exc("OSError", "Input/output error"))
             /\ WithExit
             /\ UNCHANGED <<cursor, content>>
        ELSE IF undecodable
        THEN /\ Fail(Exc("UnicodeDecodeError", "codec can't decode"))
             /\ WithExit
             /\ UNCHANGED <<cursor, content>>
        ELSE /\ fh' = "open"
             /\ content' = <<get_last_lines(unread_lines(cursor))>>
             /\ cursor' = fileLen
             /\ pc' = "send_content"
             /\ UNCHANGED exc
    /\ UNCHANGED <<inputVars, stale, fileVars, localVars, clockVars,
                   connVars, inbox, sentVars, probe, tailReads, log>>

\* send_file_content: send the snapshot, then tail_file when tail is set
\* (last_heartbeat = time.time()) or leave the with block
SendSnapshot ==
    /\ pc = "send_content"
    /\ content' = <<>>
    /\ IF conn = "open"
       THEN /\ sentContent' = Append(sentContent, content[1])
            /\ UNCHANGED exc
            /\ IF tail
               THEN /\ pc' = "tail_read"
                    /\ elapsed' = 0
                    /\ UNCHANGED fh
               ELSE /\ pc' = "finish"
                    /\ WithExit
                    /\ UNCHANGED elapsed
       ELSE /\ Fail(Exc("ConnectionClosed", "no close frame received or sent"))
            /\ WithExit
            /\ UNCHANGED <<sentContent, elapsed>>
    /\ UNCHANGED <<inputVars, stale, fileVars, localVars, cursor, waited,
                   connVars, inbox, sentError, pings, probe, tailReads, log>>

\* variant: the probe is due as soon as the interval is reached
heartbeat_due_inclusive(e) == e >= HEARTBEAT_INTERVAL

\* the check at the end of a tail_file iteration
heartbeat_due(e) == e > HEARTBEAT_INTERVAL

\* tail_file: file.read() and the branch on its result
TailRead ==
    /\ pc = "tail_read"
    /\ \E fault \in {"none", "io"} :
        LET new == unread_lines(cursor)
        IN IF fault = "io"
           THEN /\ Fail(Exc("OSError", "Input/output error"))
                /\ WithExit
                /\ elapsed' = 0
                /\ UNCHANGED <<cursor, tailReads, sentContent>>
           ELSE IF undecodable
           THEN /\ Fail(Exc("UnicodeDecodeError", "codec can't decode"))
                /\ WithExit
                /\ elapsed' = 0
                /\ UNCHANGED <<cursor, tailReads, sentContent>>
           ELSE IF new = <<>>
           THEN /\ pc' = "sleep"
                /\ UNCHANGED <<exc, fh, cursor, tailReads, sentContent,
                               elapsed>>
           ELSE /\ cursor' = fileLen
                /\ tailReads' = Append(tailReads, new)
                /\ LET c == converter_call(new)
                   IN IF c.raised
                      THEN /\ Fail(c.exc)
                           /\ WithExit
                           /\ elapsed' = 0
                           /\ UNCHANGED sentContent
                      ELSE IF conn = "open"
                      THEN /\ sentContent' = Append(sentContent, c.value)
                           /\ pc' = IF heartbeat_due(elapsed)
                                    THEN "send_ping" ELSE "tail_read"
                           /\ UNCHANGED <<exc, fh, elapsed>>
                      ELSE /\ Fail(Exc("ConnectionClosed",
                                       "no close frame received or sent"))
                           /\ WithExit
                           /\ elapsed' = 0
                           /\ UNCHANGED sentContent
    /\ UNCHANGED <<inputVars, stale, fileVars, localVars, content, waited,
                   connVars, inbox, sentError, pings, probe, log>>

\* variant: last_heartbeat is set anew in every iteration
Sleep_reset_clock ==
    /\ pc = "sleep"
    /\ elapsed' = 0
    /\ pc' = IF heartbeat_due(elapsed') THEN "send_ping" ELSE "tail_read"
    /\ UNCHANGED <<inputVars, stale, fileVars, localVars, fh, cursor,
                   content, exc, waited, connVars, inbox, sentVars, probe,
                   tailReads, log>>

\* tail_file: asyncio.sleep(1) ends, then the heartbeat check
Sleep ==
    /\ pc = "sleep"
    /\ elapsed' = Min(elapsed + POLL_INTERVAL, HEARTBEAT_INTERVAL + 1)
    /\ pc' = IF heartbeat_due(elapsed') THEN "send_ping" ELSE "tail_read"
    /\ UNCHANGED <<inputVars, stale, fileVars, localVars, fh, cursor,
                   content, exc, waited, connVars, inbox, sentVars, probe,
                   tailReads, log>>

PingError == Exc("Exception", "Ping Error")

\* send_heartbeat: websocket.send('ping')
SendPing ==
    /\ pc = "send_ping"
    /\ IF conn = "open"
       THEN /\ pings' = Min(pings + 1, MaxPings)
            /\ stale' = Len(inbox)
            /\ pc' = "await_pong"
            /\ UNCHANGED <<exc, fh, probe, elapsed>>
       ELSE /\ Fail(PingError)
            /\ probe' = "unsent"
            /\ WithExit
            /\ elapsed' = 0
            /\ UNCHANGED <<pings, stale>>
    /\ UNCHANGED <<inputVars, fileVars, localVars, cursor, content, waited,
                   connVars, inbox, sentContent, sentError, tailReads, log>>

\* send_heartbeat: wait_for(websocket.recv(), 5) returns a message, raises
\* ConnectionClosed or times out; then last_heartbeat = time.time()
AwaitPong ==
    /\ pc = "await_pong"
    /\ IF inbox # <<>>
       THEN /\ inbox' = Tail(inbox)
            /\ IF is_pong(Head(inbox))
               THEN /\ pc' = "tail_read"
                    /\ UNCHANGED <<exc, fh, probe>>
               ELSE /\ probe' = "bad"
                    /\ Fail(PingError)
                    /\ WithExit
       ELSE /\ conn = "closed" \/ waited = HEARTBEAT_TIMEOUT
            /\ probe' = IF conn = "closed" THEN "closed" ELSE "timeout"
            /\ Fail(PingError)
            /\ WithExit
            /\ UNCHANGED inbox
    /\ elapsed' = 0
    /\ waited' = 0
    /\ stale' = 0
    /\ UNCHANGED <<inputVars, fileVars, localVars, cursor, content,
                   connVars, sentVars, tailReads, log>>

\* one time unit passes while wait_for is pending
WaitTick ==
    /\ pc = "await_pong"
    /\ inbox = <<>>
    /\ conn = "open"
    /\ waited < HEARTBEAT_TIMEOUT
    /\ waited' = waited + 1
    /\ UNCHANGED <<inputVars, stale, fileVars, pc, localVars, fh, cursor,
                   content, exc, elapsed, connVars, inbox, sentVars, probe,
                   tailReads, log>>

\* variant: handle_error sends the payload and leaves the close out
HandleError_no_close ==
    /\ pc = "handle_error"
    /\ IF conn = "open"
       THEN /\ sentError' = Append(sentError, ErrorPayload(exc))
            /\ UNCHANGED <<conn, closeCalled>>
       ELSE UNCHANGED <<sentError, conn, closeCalled>>
    /\ log' = Append(log, Disconnected(exc))
    /\ pc' = "closed"
    /\ UNCHANGED <<inputVars, stale, fileVars, localVars, fh, cursor,
                   content, exc, clockVars, clientGone, inbox, sentContent,
                   pings, probe, tailReads>>

\* handle_error: send the error payload, close, swallow a failure, log
HandleError ==
    /\ pc = "handle_error"
    /\ IF conn = "open"
       THEN /\ sentError' = Append(sentError, ErrorPayload(exc))
            /\ conn' = "closed"
            /\ closeCalled' = TRUE
       ELSE UNCHANGED <<sentError, conn, closeCalled>>
    /\ log' = Append(log, Disconnected(exc))
    /\ pc' = "closed"
    /\ UNCHANGED <<inputVars, stale, fileVars, localVars, fh, cursor,
                   content, exc, clockVars, clientGone, inbox, sentContent,
                   pings, probe, tailReads>>

\* handle_generic_error
HandleGenericError ==
    /\ pc = "generic_error"
    /\ log' = Append(log, Disconnected(exc))
    /\ pc' = "closed"
    /\ UNCHANGED <<inputVars, stale, fileVars, localVars, fh, cursor,
                   content, exc, clockVars, connVars, inbox, sentVars, probe,
                   tailReads>>

\* the else clause of send_log_data
Finish ==
    /\ pc = "finish"
    /\ log' = Append(log, Disconnected(NoExc))
    /\ pc' = "closed"
    /\ UNCHANGED <<inputVars, stale, fileVars, localVars, fh, cursor,
                   content, exc, clockVars, connVars, inbox, sentVars, probe,
                   tailReads>>

\* websockets.serve closes the connection once the handler has returned
ServeClose ==
    /\ pc = "closed"
    /\ conn = "open"
    /\ conn' = "closed"
    /\ UNCHANGED <<inputVars, stale, fileVars, pc, localVars, fh, cursor,
                   content, exc, clockVars, clientGone, closeCalled, inbox,
                   sentVars, probe, tailReads, log>>

\* ------------------------------------------------------- the environment
TailPcs == {"tail_read", "sleep", "send_ping", "await_pong"}

\* the client sends a message; only recv in send_heartbeat ever looks at the
\* queue, so messages are taken from the start of tailing on
ClientSend ==
    /\ pc \in TailPcs
    /\ conn = "open"
    /\ Len(inbox) < MaxInbox
    /\ \E m \in {"pong", "other"} : inbox' = Append(inbox, m)
    /\ UNCHANGED <<inputVars, stale, fileVars, pc, localVars, fh, cursor,
                   content, exc, clockVars, connVars, sentVars, probe,
                   tailReads, log>>

\* the client closes the connection
ClientDisconnect ==
    /\ pc # "closed"
    /\ conn = "open"
    /\ conn' = "closed"
    /\ clientGone' = TRUE
    /\ UNCHANGED <<inputVars, stale, fileVars, pc, localVars, fh, cursor,
                   content, exc, clockVars, closeCalled, inbox, sentVars,
                   probe, tailReads, log>>

\* a writer appends a line to the log; only a later read sees it, so
\* appends are taken from the point where the file is about to be opened
AppendLine ==
    /\ pc \in {"send_file_content"} \cup TailPcs
    /\ appended < MaxAppend
    /\ appended' = appended + 1
    /\ fileLen' = fileLen + 1
    /\ UNCHANGED <<inputVars, stale, files, undecodable, pc, localVars, fh,
                   cursor, content, exc, clockVars, connVars, inbox,
                   sentVars, probe, tailReads, log>>

\* a writer appends bytes that do not decode
AppendGarbage ==
    /\ pc \in {"send_file_content"} \cup TailPcs
    /\ ~undecodable
    /\ undecodable' = TRUE
    /\ UNCHANGED <<inputVars, stale, files, fileLen, appended, pc, localVars,
                   fh, cursor, content, exc, clockVars, connVars, inbox,
                   sentVars, probe, tailReads, log>>

\* a file is removed; only isfile and open look at the filesystem
Unlink ==
    /\ pc \in {"connected", "check_access", "send_file_content"}
    /\ \E f \in files : files' = files \ {f}
    /\ UNCHANGED <<inputVars, stale, fileLen, undecodable, appended, pc,
                   localVars, fh, cursor, content, exc, clockVars, connVars,
                   inbox, sentVars, probe, tailReads, log>>

Next ==
    \/ Validate
    \/ CheckAccess
    \/ OpenSnapshot
    \/ SendSnapshot
    \/ TailRead
    \/ Sleep
    \/ SendPing
    \/ AwaitPong
    \/ WaitTick
    \/ HandleError
    \/ HandleGenericError
    \/ Finish
    \/ ServeClose
    \/ ClientSend
    \/ ClientDisconnect
    \/ AppendLine
    \/ AppendGarbage
    \/ Unlink

Spec == Init /\ [][Next]_vars

\* The event loop resumes a coroutine once the operation it awaits has
\* completed, and the server closes a connection whose handler returned.
\* The steps from the start of tailing on, with the two handlers and the
\* end of the session; at most one of them is enabled in any state.
Resume ==
    \/ TailRead
    \/ Sleep
    \/ SendPing
    \/ AwaitPong
    \/ WaitTick
    \/ HandleError
    \/ HandleGenericError
    \/ Finish
    \/ ServeClose

FairSpec == Init /\ [][Next]_vars /\ WF_vars(Resume)

\* --------------------------------------------------------- two sessions
\* websockets.serve starts one send_log_data coroutine per connection, all
\* on one event loop.  Everything a session works on is a parameter or a
\* local of its coroutines (path, parse_result, file_path, tail, f, content,
\* last_heartbeat, the websocket); the module-level allowed_directories,
\* the filesystem and the log are common to all sessions.  The variables
\* hold the locals of the session that takes the next step, and peer
\* those of the other one.
Session ==
    [request |-> request, pc |-> pc, parse_result |-> parse_result,
     file_path |-> file_path, tail |-> tail, fh |-> fh, cursor |-> cursor,
     content |-> content, exc |-> exc, elapsed |-> elapsed,
     waited |-> waited, conn |-> conn, clientGone |-> clientGone,
     closeCalled |-> closeCalled, inbox |-> inbox, stale |-> stale,
     sentContent |-> sentContent, sentError |-> sentError, pings |-> pings,
     probe |-> probe, tailReads |-> tailReads]

\* the locals of a session that has just been accepted with request r
Accepted(r) ==
    [request |-> r, pc |-> "connected",
     parse_result |-> [raised |-> FALSE, path |-> <<>>, query |-> <<>>],
     file_path |-> <<>>, tail |-> FALSE, fh |-> "none", cursor |-> 0,
     content |-> <<>>, exc |-> NoExc, elapsed |-> 0, waited |-> 0,
     conn |-> "open", clientGone |-> FALSE, closeCalled |-> FALSE,
     inbox |-> <<>>, stale |-> 0, sentContent |-> <<>>, sentError |-> <<>>,
     pings |-> 0,
     probe |-> "none", tailReads |-> <<>>]

\* the event loop turns from one session, suspended at an await or
\* finished, to the other
Switch ==
    /\ peer # NoSession
    /\ peer' = Session
    /\ request' = peer.request
    /\ pc' = peer.pc
    /\ parse_result' = peer.parse_result
    /\ file_path' = peer.file_path
    /\ tail' = peer.tail
    /\ fh' = peer.fh
    /\ cursor' = peer.cursor
    /\ content' = peer.content
    /\ exc' = peer.exc
    /\ elapsed' = peer.elapsed
    /\ waited' = peer.waited
    /\ conn' = peer.conn
    /\ clientGone' = peer.clientGone
    /\ closeCalled' = peer.closeCalled
    /\ inbox' = peer.inbox
    /\ stale' = peer.stale
    /\ sentContent' = peer.sentContent
    /\ sentError' = peer.sentError
    /\ pings' = peer.pings
    /\ probe' = peer.probe
    /\ tailReads' = peer.tailReads
    /\ UNCHANGED <<allowed_directories, fileVars, log>>

\* the requests of the two sessions: tailing the file inside the root,
\* its snapshot only, and a target outside the root
TwoRequests ==
    {[target |-> InsideTarget, query |-> TailQuery],
     [target |-> InsideTarget, query |-> <<>>],
     [target |-> <<"/">>, query |-> <<>>]}

TwoInit ==
    /\ request \in TwoRequests
    /\ peer \in {Accepted(r) : r \in TwoRequests}
    /\ allowed_directories = DefaultRoots \cup {InsideRoot}
    /\ fileLen = 2
    /\ Fresh

\* the steps of the session the loop has turned to
SessionStep ==
    \/ Validate
    \/ CheckAccess
    \/ OpenSnapshot
    \/ SendSnapshot
    \/ TailRead
    \/ Sleep
    \/ SendPing
    \/ AwaitPong
    \/ WaitTick
    \/ HandleError
    \/ HandleGenericError
    \/ Finish

\* two sessions whose clients stay silent and may go away, on a log that
\* nobody writes to
TwoNext ==
    \/ SessionStep
    \/ ServeClose
    \/ ClientDisconnect
    \/ Switch

TwoSpec == TwoInit /\ [][TwoNext]_vars

\* ============================================================ properties
\* what the request resolves to: abspath("." + path)
Resolved == abspath(<<".">> \o urlparse(request).path)

Parses == ~urlparse(request).raised

\* some configured root is a string prefix of the resolved path
UnderSomeRoot ==
    \E r \in allowed_directories :
        /\ Len(r) <= Len(Resolved)
        /\ \A i \in 1..Len(r) : Resolved[i] = r[i]

OutsideRoots == Parses /\ ~UnderSomeRoot

Forbidden == Exc("ValueError", "Forbidden")
NotFound == Exc("ValueError", "Not Found")
BadRequest == Exc("ValueError", "Fail to parse URL")
Vanished == Exc("ValueError", "Forbidden or not found")

\* nothing was done with any file and no log content left the server
NoFileAccess ==
    /\ fh = "none"
    /\ cursor = 0
    /\ content = <<>>
    /\ sentContent = <<>>
    /\ tailReads = <<>>
    /\ pc \notin {"send_file_content", "send_content", "finish"} \cup TailPcs

\* C1: a request whose normalized resolution starts with no allowed root is
\* rejected with Forbidden as soon as it is validated, and on that session
\* no file is opened or read and no snapshot is sent.
C1_OutsideRootsForbidden ==
    OutsideRoots =>
        /\ NoFileAccess
        /\ pc # "connected" => exc = Forbidden /\ pc \in {"handle_error", "closed"}

\* a request with a ".." segment that leaves the roots was rejected, and
\* the client got the Forbidden payload
C1_Witness ==
    /\ \E i \in 1..Len(split(request.target)) : split(request.target)[i] = DotDot
    /\ OutsideRoots
    /\ pc = "closed"
    /\ exc = Forbidden
    /\ Len(sentError) = 1

\* the request passes path validation in the filesystem as it is now
Accepts == Parses /\ UnderSomeRoot /\ Resolved \in files

\* C2: path validation accepts exactly the requests whose resolved path
\* has a configured root as a plain string prefix and names a regular file
\* that exists when it is examined, at both of its checks.
C2_AcceptIffPrefixAndFile ==
    [][/\ (pc = "connected" /\ pc' # pc) =>
            (pc' = "check_access" <=> Accepts)
       /\ (pc = "check_access" /\ pc' # pc) =>
            ((pc' = "handle_error" /\ exc' = Vanished) <=> ~Accepts)]_vars

\* with root /a/a the sibling file /a/aa was accepted
C2_Witness ==
    /\ <<"/", "a", "/", "a">> \in allowed_directories
    /\ file_path = SiblingFile
    /\ pc = "send_file_content"

\* C3 (as stated): every validation failure is one of BadRequest,
\* Forbidden and NotFound.
C3_ThreeClasses ==
    exc.type = "ValueError" => exc \in {BadRequest, Forbidden, NotFound}

\* C3 (amended): a validation failure is BadRequest exactly when the path
\* does not parse, Forbidden exactly when it resolves outside the roots
\* (whether or not the file exists), and otherwise NotFound or, when the
\* file went away between the two checks, "Forbidden or not found"; after
\* any of them no file is opened, no snapshot is sent and tailing is never
\* entered.
C3_FourClasses ==
    exc.type = "ValueError" =>
        /\ exc \in {BadRequest, Forbidden, NotFound, Vanished}
        /\ exc = BadRequest <=> ~Parses
        /\ exc = Forbidden <=> OutsideRoots
        /\ exc \in {NotFound, Vanished} => Resolved \notin files
        /\ exc = Vanished => file_path = Resolved
        /\ NoFileAccess
        /\ pc \in {"handle_error", "closed"}

\* the file was removed between get_absolute_file_path and
\* is_file_accessible
C3_Witness ==
    /\ exc = Vanished
    /\ pc = "closed"

\* the session ended on a rejection by path validation
Rejected == exc.type = "ValueError"

\* the error payload for the message of the exception being handled
RedPayload == <<"<font color=\"red\"><strong>", exc.msg, "</strong></font>">>

\* C4: on a rejection by path validation the session sends the red error
\* payload and then closes the connection, in that order; when the payload
\* cannot be sent the failure is swallowed, close is skipped, and the
\* session still ends with its end logged and the rejection as the logged
\* exception.
C4_ErrorPathSendsThenCloses ==
    /\ closeCalled => sentError = <<RedPayload>> /\ conn = "closed"
    /\ sentError # <<>> => closeCalled
    /\ (Rejected /\ pc = "closed") =>
        /\ log[Len(log)] = [event |-> "Client disconnected",
                            address |-> RemoteAddress, path |-> request,
                            exception |-> exc]
        /\ IF clientGone
           THEN sentError = <<>> /\ ~closeCalled
           ELSE sentError = <<RedPayload>> /\ closeCalled
    /\ (Rejected /\ pc # "closed") => pc = "handle_error" /\ sentError = <<>>

\* the client was gone when a Forbidden request was rejected: nothing was
\* sent, close was not called, the end was logged
C4_Witness ==
    /\ exc = Forbidden
    /\ pc = "closed"
    /\ clientGone
    /\ sentError = <<>>
    /\ Len(log) = 2

\* the space-joined last Min(n, NUM_LINES) of the lines 1..n
LastLinesJoined(n) ==
    LET m == IF n < NUM_LINES THEN n ELSE NUM_LINES
    IN [i \in 1..(IF m = 0 THEN 0 ELSE 2 * m - 1) |->
          IF i % 2 = 1 THEN n - m + (i + 1) \div 2 ELSE SPACE]

\* C5: the snapshot of a file with n lines is the last Min(n, NUM_LINES)
\* lines, each once and in file order, joined with single spaces; taking it
\* leaves the cursor at end-of-file, so the first read of the tail loop
\* returns only what was appended after it.
C5_SnapshotIsLastLines ==
    /\ [][(pc = "send_file_content" /\ pc' = "send_content") =>
            /\ cursor' = fileLen
            /\ content' = <<[html |-> LastLinesJoined(fileLen)]>>]_vars
    /\ [][(pc = "send_content" /\ sentContent' # sentContent) =>
            sentContent' = <<[html |-> LastLinesJoined(cursor)]>>]_vars
    /\ [][(tailReads = <<>> /\ tailReads' # <<>>) =>
            /\ tailReads'[1][1] = cursor + 1
            /\ sentContent[1] = [html |-> LastLinesJoined(cursor)]]_vars

\* a snapshot of a file with more than NUM_LINES lines was sent: NUM_LINES
\* lines, the first of them not the first line of the file
C5_Witness ==
    /\ sentContent # <<>>
    /\ Len(sentContent[1].html) = 2 * NUM_LINES - 1
    /\ sentContent[1].html[1] > 1
    /\ pc = "closed"

\* the first non-blank value of the tail parameter is "1"
TailRequested ==
    \E i \in 1..Len(request.query) :
        /\ request.query[i] = <<"tail", "1">>
        /\ \A j \in 1..(i - 1) :
             request.query[j][1] = "tail" => request.query[j][2] = ""

\* C6: a session is in the tail loop only if its tail flag is "1" and its
\* snapshot was sent; a session whose flag is not "1" never reads appended
\* bytes and never sends a ping.
C6_TailOnlyOnFlag ==
    /\ pc \in TailPcs => TailRequested /\ Len(sentContent) >= 1 /\ tail
    /\ ~TailRequested => pings = 0 /\ tailReads = <<>> /\ ~tail

\* a session with tail=1 is waiting for the answer to its ping
C6_Witness ==
    /\ TailRequested
    /\ pc = "await_pong"
    /\ pings = 1
    /\ Len(sentContent) = 1

\* path validation accepted the request
PassedValidation == file_path # <<>> /\ exc # Vanished

\* C7 (as stated): a request that passes path validation without tail=1
\* gets the snapshot and its session ends normally, unless the client went
\* away or the file could not be opened or read.
C7_NoTailSnapshotThenEnd ==
    (/\ pc = "closed"
     /\ PassedValidation
     /\ ~TailRequested
     /\ ~clientGone
     /\ exc.type \notin {"FileNotFoundError", "OSError", "UnicodeDecodeError"})
        => Len(sentContent) = 1 /\ exc = NoExc

\* C8 (as stated): with the client connected, no failed probe and no read
\* error, bytes read by the tail loop have been sent and the session has
\* not terminated.
C8_AppendedBytesDelivered ==
    (/\ tailReads # <<>>
     /\ ~clientGone
     /\ probe = "none"
     /\ exc.type \notin {"OSError", "UnicodeDecodeError"})
        => /\ Len(sentContent) = 1 + Len(tailReads)
           /\ pc \in TailPcs

C10_HandleReleased ==
    /\ [](pc \in {"closed", "finish", "handle_error", "generic_error"}
            => fh # "open")
    /\ [](fh # "none" => PassedValidation)
    /\ [](fh = "open" <=> pc \in {"send_content"} \cup TailPcs)
    /\ [][(fh = "closed" => fh' = "closed") /\ (fh = "open" => fh' # "none")]_vars

\* a session that failed to send, after it had opened the file, has ended
\* with the file closed
C10_Witness ==
    /\ pc = "closed"
    /\ fh = "closed"
    /\ exc.type = "ConnectionClosed"

\* ---------------------------------------------------------------- C11
\* C11 as stated: connection close occurs on every exit path of a session;
\* whenever the session handler has finished, the connection has been
\* closed.
C11_ClosedWhenFinished == pc = "closed" => conn = "closed"

\* C11 amended: a session that ends in handle_error has its connection
\* closed when the handler finishes, also when the send of the error
\* payload raised; on the other exit paths (normal end, generic error) the
\* handler never calls close, the connection is still open when it finishes
\* unless the client closed it, and closing it is the only step left, which
\* the server takes.
C11_ClosedByHandlerOrServer ==
    /\ [](pc = "closed" =>
            /\ exc.type \in ValueErrorTypes => conn = "closed"
            /\ exc.type \notin ValueErrorTypes => ~closeCalled
            /\ conn = "open" => ~clientGone /\ ~closeCalled)
    /\ [][(pc = "closed" /\ conn = "open") => conn' = "closed"]_vars
    /\ (pc = "closed" ~> conn = "closed")

\* the send of the error payload raised, and the session ended closed
C11_Witness ==
    /\ pc = "closed"
    /\ exc.type \in ValueErrorTypes
    /\ clientGone
    /\ sentError = <<>>
    /\ conn = "closed"

\* ---------------------------------------------------------------- C12
\* the session-end records written so far
EndRecords == {i \in 1..Len(log) : log[i].event = "Client disconnected"}

\* the session ended normally: the snapshot was sent and tailing was not
\* asked for
NormalEnd == exc = NoExc /\ ~tail /\ Len(sentContent) = 1

\* C12: every terminal transition of a session (validation rejection,
\* normal end after the snapshot, end of tailing by error, liveness failure
\* or disconnect) writes a session-end record with the remote endpoint and
\* the requested path, exactly once per session, and the record carries
\* the terminating exception whenever the session ended because of an
\* error.
C12_SessionEndLoggedOnce ==
    /\ Cardinality(EndRecords) = (IF pc = "closed" THEN 1 ELSE 0)
    /\ pc = "closed" =>
        /\ EndRecords = {Len(log)}
        /\ log[Len(log)].address = RemoteAddress
        /\ log[Len(log)].path = request
        /\ log[Len(log)].exception = exc
        /\ exc = NoExc <=> NormalEnd
    /\ pc \in {"handle_error", "generic_error"} => exc # NoExc

\* tailing ended by a heartbeat timeout and the record carries 'Ping Error'
C12_Witness ==
    /\ pc = "closed"
    /\ probe = "timeout"
    /\ EndRecords = {2}
    /\ log[2].exception = PingError

\* ---------------------------------------------------------------- C13
\* C13 as stated: closing the connection while a session is in Tailing
\* unblocks whatever suspension is pending (the polling sleep, the wait for
\* a heartbeat response, a send) and leads to termination: the next step
\* of a tailing session whose connection is closed leaves Tailing.
C13_CloseUnblocks ==
    [][(conn = "closed" /\ pc \in TailPcs /\ pc' # pc)
        => pc' \notin TailPcs]_vars

\* C13 amended: a closed connection fails the next send and ends a wait for
\* a heartbeat response that has no message queued, but it does not
\* interrupt the polling sleep or the read: the session keeps polling with
\* its file open until it next sends, at the latest the ping that is due
\* when the heartbeat clock exceeds HEARTBEAT_INTERVAL.  It then
\* terminates and its file is closed: a session whose connection has
\* closed never stays in Tailing forever.
C13_ClosedConnectionEndsTailing ==
    /\ [][(conn = "closed" /\ pc = "send_ping" /\ pc' # pc)
            => pc' = "generic_error" /\ fh' = "closed"]_vars
    /\ [][(conn = "closed" /\ pc = "await_pong" /\ inbox = <<>>)
            => IF pc' = pc THEN waited' = waited
               ELSE pc' = "generic_error" /\ fh' = "closed"]_vars
    /\ [][(conn = "closed" /\ pc = "sleep" /\ pc' # pc)
            => /\ fh' = "open"
               /\ elapsed' = elapsed + POLL_INTERVAL
               /\ pc' = IF elapsed' > HEARTBEAT_INTERVAL
                        THEN "send_ping" ELSE "tail_read"]_vars
    /\ ((conn = "closed" /\ pc \in TailPcs) ~> (pc = "closed" /\ fh = "closed"))

\* the client went away during tailing, the session polled on until the
\* ping was due, failed to send it and ended with the file closed
C13_Witness ==
    /\ pc = "closed"
    /\ tail
    /\ clientGone
    /\ probe = "unsent"
    /\ pings = 0
    /\ tailReads = <<>>
    /\ fh = "closed"

\* ---------------------------------------------------------------- C14
\* the other session is suspended at an await (the polling sleep, the wait
\* for a pong, a send) or has failed
PeerSuspendedOrFailed ==
    \/ peer.pc \in {"sleep", "await_pong", "send_content", "send_ping"}
    \/ peer.exc # NoExc

\* C14: sessions are independent.  With two concurrent sessions, one
\* session being suspended or failing never prevents the other from taking
\* its next step; no step of one session changes the other session's
\* state, which is found as it was left when the loop turns to it; and the
\* one thing the sessions share, allowed_directories, is not modified once
\* connections are accepted.
C14_SessionsIndependent ==
    /\ [][allowed_directories' = allowed_directories]_vars
    /\ [][peer' # peer => (peer' = Session /\ Session' = peer)]_vars
    /\ []((PeerSuspendedOrFailed /\ pc \notin {"connected", "closed"})
            => ENABLED SessionStep)

\* one session has failed its heartbeat probe and finished while the other,
\* accepted with the same request, is still tailing
C14_Witness ==
    /\ peer # NoSession
    /\ peer.pc = "closed"
    /\ peer.probe = "timeout"
    /\ pc = "sleep"
    /\ elapsed = 3
    /\ conn = "open"
    /\ request = peer.request

\* ---------------------------------------------------------------- C15
\* C15 (as stated): a session leaves Tailing only because its connection
\* closed, a file read error occurred or a liveness probe failed; with the
\* connection open, the file readable and every ping answered it stays in
\* Tailing, whether or not new content is appended.
C15_LeavesTailingOnlyOn ==
    [][(pc \in TailPcs /\ pc' \notin TailPcs)
        => \/ conn = "closed"
           \/ exc'.type \in {"OSError", "UnicodeDecodeError"}
           \/ probe' # "none"]_vars

\* ---------------------------------------------------------------- C16
\* the state of the session's state machine; while an exception is being
\* handled the session is still in the state the exception arose in
Phase ==
    IF pc = "closed" THEN "Closed"
    ELSE IF pc = "connected" THEN "Connected"
    ELSE IF pc \in {"check_access", "send_file_content", "send_content"}
    THEN "Validating"
    ELSE IF pc = "finish" THEN "SnapshotSent"
    ELSE IF pc \in TailPcs THEN "Tailing"
    ELSE IF sentContent = <<>> THEN "Validating"
    ELSE IF tail THEN "Tailing"
    ELSE "SnapshotSent"

Edges ==
    {<<"Connected", "Validating">>, <<"Validating", "SnapshotSent">>,
     <<"SnapshotSent", "Tailing">>, <<"SnapshotSent", "Closed">>,
     <<"Validating", "Closed">>, <<"Tailing", "Closed">>}

NothingSent == sentContent = <<>> /\ sentError = <<>> /\ pings = 0

\* C16: a session moves only along Connected -> Validating -> SnapshotSent
\* -> (Tailing | Closed), Validating -> Closed and Tailing -> Closed (the
\* step that sends the snapshot of a tailing session passes through
\* SnapshotSent); nothing is sent before validation has finished; the
\* snapshot is sent at most once and before any tailed content or ping;
\* Closed is absorbing; no failure is retried.
C16_StateMachine ==
    /\ [][Phase' # Phase =>
            \/ <<Phase, Phase'>> \in Edges
            \/ /\ Phase = "Validating"
               /\ Phase' = "Tailing"
               /\ sentContent = <<>>
               /\ Len(sentContent') = 1]_vars
    /\ [](pc \in {"connected", "check_access"} => NothingSent)
    /\ []((pings > 0 \/ tailReads # <<>>) => sentContent # <<>>)
    /\ [][(sentContent = <<>> /\ sentContent' # <<>>)
            => pc = "send_content" /\ sentContent' = <<content[1]>>]_vars
    /\ [][pc' = "send_content"
            => pc \in {"send_file_content", "send_content"}]_vars
    /\ [][pc = "closed"
            => /\ pc' = "closed"
               /\ UNCHANGED <<sentVars, fh, cursor, tailReads, exc, log>>]_vars
    /\ [][exc # NoExc
            => /\ exc' = exc
               /\ pc' \in {pc, "closed"}
               /\ UNCHANGED <<sentContent, pings, fh, cursor,
                              tailReads>>]_vars

\* a session that went through every state: validated, snapshot sent,
\* tailed, probed, and closed
C16_Witness ==
    /\ pc = "closed"
    /\ tail
    /\ Len(sentContent) = 1
    /\ pings > 0
    /\ sentError = <<>>

\* ---------------------------------------------------------------- C17
\* a step that completes the first half of a loop iteration (the sleep
\* after an empty read, or the send of what a read returned) and so
\* arrives at the heartbeat check
IterationChecked ==
    \/ pc = "sleep" /\ pc' # "sleep"
    \/ pc = "tail_read" /\ sentContent' # sentContent

\* a step that sends a ping
PingSent == pc = "send_ping" /\ pc' = "await_pong"

C18_SendOrSleep ==
    /\ [][(/\ pc = "tail_read"
            /\ pc' # pc
            /\ conn = "open"
            /\ exc'.type \notin {"OSError", "UnicodeDecodeError"})
            => IF tailReads' # tailReads
               THEN /\ Len(sentContent') = Len(sentContent) + 1
                    /\ pc' \in {"tail_read", "send_ping"}
                    /\ elapsed' = elapsed
               ELSE /\ pc' = "sleep"
                    /\ sentContent' = sentContent]_vars
    /\ [][pc = "sleep" /\ pc' # pc
            => elapsed' = elapsed + POLL_INTERVAL /\ sentContent' = sentContent]_vars

\* ---------------------------------------------------------------- C19
\* C19 (as stated): the red error payload is sent only when path validation
\* rejected the request; it is never sent after the file has been opened
\* or after the snapshot has been sent, whatever error ends the session.
C19_RedPayloadOnlyOnRejection ==
    sentError # <<>> =>
        /\ exc.type = "ValueError"
        /\ fh = "none"
        /\ sentContent = <<>>

\* ---------------------------------------------------------------- C20
\* C20 (as stated): the server consumes client messages only while a probe
\* awaits its response, one per probe, and a probe succeeds only on a pong
\* the client sent after that probe's ping: a message sent before the ping
\* is never accepted as the response.
C20_OnlyFreshPongAccepted ==
    /\ [][inbox' # inbox /\ Len(inbox') <= Len(inbox)
            => pc = "await_pong" /\ pc' # pc /\ inbox' = Tail(inbox)]_vars
    /\ [][(pc = "await_pong" /\ pc' = "tail_read")
            => inbox # <<>> /\ Head(inbox) = "pong" /\ stale = 0]_vars

====
